---- MODULE Spec2Model ----
(***************************************************************************)
(* Model of utils/decode.py: the keystream unmasker decode() and the       *)
(* archive decoding script that follows it (header, directory, entries,    *)
(* paths).                                                                 *)
(*                                                                         *)
(* A Python integer that may need 32 bits or more is kept as a record      *)
(* [hi, lo] standing for hi * 65536 + lo, with lo in 0..65535; a value     *)
(* that has been masked with 0xFFFFFFFF also has hi in 0..65535.           *)
(* A bytes object is a sequence of numbers in 0..255.                      *)
(***************************************************************************)
EXTENDS Integers, Sequences, FiniteSets, TLC

VARIABLES
    \* ---- the script (module body, lines 18-39) ----
    pc,         \* the statement the script is at, "done" or "failed"
    buf,        \* the archive as read from the file (line 20)
    buf2,       \* the unmasked header, then the unmasked directory region
    header,     \* Header(signature, size, offset, compressed_size)
    dcmp,       \* the decompressed directory; from line 29 on without its count
    nentries,   \* the entry count read at line 28
    entries,    \* list of Entry(path_offset, offset, size)
    i,          \* the loop variable of line 32
    paths,      \* list of resolved paths
    printed,    \* what lines 38-39 have written to stdout so far
    err,        \* the uncaught exception that ended the script, if any
    \* ---- one caller of decode() making several calls (lines 10-16) ----
    dpc,        \* "idle" between calls, "loop" inside the for loop
    arg_buf,    \* decode's parameter buf
    arg_offset, \* decode's parameter offset
    seed,       \* decode's local seed
    out,        \* decode's local out
    pool,       \* the buffers the caller has at hand: its input and every result
    hist        \* the completed calls, in order: [buf, offset, out]

pvars == <<pc, buf, buf2, header, dcmp, nentries, entries, i, paths, printed, err>>
dvars == <<dpc, arg_buf, arg_offset, seed, out, pool, hist>>
vars == <<pvars, dvars>>

----------------------------------------------------------------------------
(* Bounds of the model. *)

MaxLen == 2         \* longest buffer the decode caller starts from
MaxCalls == 3       \* number of decode calls the caller makes
MaxTail == 6        \* most archive bytes after the 16-byte header
MaxEntries == 2     \* most entry records in a generated directory

----------------------------------------------------------------------------
(* Numbers *)

Half == 2^16

U32(h, l) == [hi |-> h, lo |-> l]

SeedBase == U32(6400, 0)            \* 0x19000000
Multiplier == U32(16838, 20077)     \* 0x41C64E6D
Increment == 12345
HeaderLen == 16
EntrySize == 12

RECURSIVE Xor(_, _)
Xor(a, b) ==
    IF a = 0 /\ b = 0 THEN 0
    ELSE ((a + b) % 2) + 2 * Xor(a \div 2, b \div 2)

\* 0x19000000 + offset, a Python int that is not reduced here
InitSeedGlobal(offset) ==
    IF hist = <<>> THEN U32(SeedBase.hi + offset.hi, offset.lo) ELSE seed

InitSeed(offset) == U32(SeedBase.hi + offset.hi, SeedBase.lo + offset.lo)

\* (seed * 0x41C64E6D + 12345) & 0xFFFFFFFF
NextSeedOddIncrement(s) ==
    LET p0 == s.lo * Multiplier.lo + Increment + 1
    IN  U32((((s.hi * Multiplier.lo) % Half) + ((s.lo * Multiplier.hi) % Half)
               + (p0 \div Half)) % Half,
            p0 % Half)

NextSeed(s) ==
    LET p0 == s.lo * Multiplier.lo + Increment
    IN  U32((((s.hi * Multiplier.lo) % Half) + ((s.lo * Multiplier.hi) % Half)
               + (p0 \div Half)) % Half,
            p0 % Half)

\* seed >> 24
MaskByte(s) == s.hi \div 256

\* (b ^ (seed >> 24)).to_bytes(1)
OutByteAdd(b, s) == (b + MaskByte(s)) % 256

OutByte(b, s) == Xor(b, MaskByte(s))

RECURSIVE DecodeFrom(_, _)
DecodeFrom(b, s) ==
    IF b = <<>> THEN <<>>
    ELSE LET s1 == NextSeed(s)
         IN  <<OutByte(Head(b), s1)>> \o DecodeFrom(Tail(b), s1)

\* decode(buf, offset) as one call
decode(b, offset) == DecodeFrom(b, InitSeed(offset))

----------------------------------------------------------------------------
(* The caller of decode(): calls run one loop iteration at a time. *)

ByteVals == {0, 65, 255}

RECURSIVE SeqsUpTo(_, _)
SeqsUpTo(S, n) ==
    IF n = 0 THEN {<<>>}
    ELSE LET shorter == SeqsUpTo(S, n - 1)
         IN  shorter \cup {Append(s, x) : s \in {t \in shorter : Len(t) = n - 1}, x \in S}

Bufs == SeqsUpTo(ByteVals, MaxLen)

\* 0, 0xE7000010 (0x19000000 + offset = 2^32 + 16), 0xFFFFFFFF
Offsets == {U32(0, 0), U32(59136, 16), U32(65535, 65535)}

DecodeInit ==
    /\ dpc = "idle"
    /\ arg_buf = <<>>
    /\ arg_offset = U32(0, 0)
    /\ seed = U32(0, 0)
    /\ out = <<>>
    /\ pool \in {{b} : b \in Bufs}
    /\ hist = <<>>

DecodeIdle ==
    /\ dpc = "idle"
    /\ arg_buf = <<>>
    /\ arg_offset = U32(0, 0)
    /\ seed = U32(0, 0)
    /\ out = <<>>
    /\ pool = {}
    /\ hist = <<>>

\* lines 10-12: entry into decode
DecodeCall ==
    /\ dpc = "idle"
    /\ Len(hist) < MaxCalls
    /\ \E b \in pool, o \in Offsets :
        /\ arg_buf' = b
        /\ arg_offset' = o
        /\ seed' = InitSeed(o)
        /\ out' = <<>>
        /\ dpc' = "loop"
    /\ UNCHANGED <<pool, hist, pvars>>

\* lines 13-15: one iteration of the for loop
DecodeStep ==
    /\ dpc = "loop"
    /\ Len(out) < Len(arg_buf)
    /\ LET b == arg_buf[Len(out) + 1]
           s1 == NextSeed(seed)
       IN  /\ seed' = s1
           /\ out' = Append(out, OutByte(b, s1))
    /\ UNCHANGED <<dpc, arg_buf, arg_offset, pool, hist, pvars>>

\* line 16: return out
DecodeReturn ==
    /\ dpc = "loop"
    /\ Len(out) = Len(arg_buf)
    /\ hist' = Append(hist, [buf |-> arg_buf, offset |-> arg_offset, out |-> out])
    /\ pool' = pool \cup {out}
    /\ dpc' = "idle"
    /\ UNCHANGED <<arg_buf, arg_offset, seed, out, pvars>>

NextDecode == DecodeCall \/ DecodeStep \/ DecodeReturn

----------------------------------------------------------------------------
(* struct: little-endian unsigned 32-bit fields *)

\* struct.unpack_from('<I', b, off)[0], off counted from 0
U32AtBigEndian(b, off) ==
    U32(b[off + 2] + 256 * b[off + 1], b[off + 4] + 256 * b[off + 3])

U32At(b, off) ==
    U32(b[off + 3] + 256 * b[off + 4], b[off + 1] + 256 * b[off + 2])

\* the buffer check of struct.unpack_from(fmt, b, off), size = calcsize(fmt)
UnpackFits(b, size, off) == off + size <= Len(b)

\* Header(*struct.unpack('<IIII', b))
HeaderOfSignatureBigEndian(b) ==
    [signature |-> U32AtBigEndian(b, 0), size |-> U32At(b, 4),
     offset |-> U32At(b, 8), compressed_size |-> U32At(b, 12)]

HeaderOf(b) ==
    [signature |-> U32At(b, 0), size |-> U32At(b, 4),
     offset |-> U32At(b, 8), compressed_size |-> U32At(b, 12)]

\* Entry(*struct.unpack_from('<III', b, off))
EntryAt(b, off) ==
    [path_offset |-> U32At(b, off), offset |-> U32At(b, off + 4),
     size |-> U32At(b, off + 8)]

\* b[0:n]
Prefix(b, n) == SubSeq(b, 1, IF n < Len(b) THEN n ELSE Len(b))

\* b[n:] for a small n
Drop(b, n) == SubSeq(b, n + 1, Len(b))

\* b[u:] for a 32-bit u
SliceFrom(b, u) == IF u.hi > 0 \/ u.lo >= Len(b) THEN <<>> ELSE Drop(b, u.lo)

\* k in range(0, n * 12, 12), for a k that is a multiple of 12
InRangeInclusive(k, n) == n.hi > 0 \/ k <= n.lo * EntrySize

InRangeClamped(k, n) ==
    (n.hi > 0 \/ k < n.lo * EntrySize) /\ k + EntrySize <= Len(dcmp)

InRange(k, n) == n.hi > 0 \/ k < n.lo * EntrySize

\* entries.append(e)
AppendEntryFront(es, e) == <<e>> \o es

AppendEntry(es, e) == Append(es, e)

----------------------------------------------------------------------------
(* The documented keystream, computed from its recurrence by shift-and-add, *)
(* and the little-endian packing used to build input files.                *)

Add32(a, b) ==
    LET l == a.lo + b.lo
    IN  U32((a.hi + b.hi + (l \div Half)) % Half, l % Half)

\* (s * 0x41C64E6D + 12345) mod 2^32 by long multiplication on bytes
RefNext(s) ==
    LET s0 == s.lo % 256
        s1 == s.lo \div 256
        s2 == s.hi % 256
        s3 == s.hi \div 256
        t0 == s0 * 109 + 12345
        t1 == s0 * 78 + s1 * 109 + (t0 \div 256)
        t2 == s0 * 198 + s1 * 78 + s2 * 109 + (t1 \div 256)
        t3 == s0 * 65 + s1 * 198 + s2 * 78 + s3 * 109 + (t2 \div 256)
    IN  U32((t2 % 256) + 256 * (t3 % 256), (t0 % 256) + 256 * (t1 % 256))

\* s_0 = (0x19000000 + base) mod 2^32, s_(k+1) = (s_k * 0x41C64E6D + 12345) mod 2^32
RECURSIVE RefSeed(_, _)
RefSeed(k, base) ==
    IF k = 0 THEN Add32(U32(6400, 0), base)
    ELSE RefNext(RefSeed(k - 1, base))

RefMasked(b, base) ==
    [k \in 1..Len(b) |-> Xor(b[k], RefSeed(k, base).hi \div 256)]

PackU32(u) == <<u.lo % 256, u.lo \div 256, u.hi % 256, u.hi \div 256>>

PackHeader(h) ==
    PackU32(h.signature) \o PackU32(h.size) \o PackU32(h.offset)
        \o PackU32(h.compressed_size)

----------------------------------------------------------------------------
(* Input files and decompressed directories the script is run on. *)

Min(a, b) == IF a < b THEN a ELSE b

\* signature 0x01020304, 0xFEFF8001; size 64, 0x80000000; offset 16, 17, 22, 0x10000
HeaderFields ==
    [signature : {U32(258, 772), U32(65279, 32769)},
     size : {U32(0, 64), U32(32768, 0)},
     offset : {U32(0, 16), U32(0, 17), U32(0, 22), U32(1, 0)},
     compressed_size : {U32(0, 5)}]

TailOf(n) == [k \in 1..n |-> (37 * k) % 256]

\* every header with its 16 bytes, masked with the documented keystream at
\* base offset 0
EncodedHeaders ==
    {[fields |-> h, bytes |-> RefMasked(PackHeader(h), U32(0, 0))] : h \in HeaderFields}

EncodedHeader(h) == (CHOOSE e \in EncodedHeaders : e.fields = h).bytes

PlainFields == {h \in HeaderFields : h.signature = U32(258, 772) /\ h.size = U32(0, 64)}

\* whole archives with every tail length, archives that end with or right
\* after the header, and archives cut short inside the header
Archives ==
    {EncodedHeader(h) \o TailOf(n) : h \in PlainFields, n \in 0..MaxTail}
    \cup {EncodedHeader(h) \o TailOf(n) : h \in HeaderFields, n \in 0..1}
    \cup {Prefix(EncodedHeader(h), n) : h \in {g \in PlainFields : g.offset = U32(0, 16)},
                                        n \in 0..15}

\* "ab\0c\0", nothing, "\xc3\xa9\0" (e-acute in UTF-8), and "a" left unterminated
StringTables == {<<97, 98, 0, 99, 0>>, <<>>, <<195, 169, 0>>, <<97>>}

\* path offsets counted from the start of the string table; 70000 lies far outside
PathOffsetChoices == {0, 3, 5, 70000}

PathOffsetOf(k, rel) ==
    IF rel = 70000 THEN U32(1, 4464) ELSE U32(0, EntrySize * k + rel)

RECURSIVE Records(_, _)
Records(pos, k) ==
    IF pos = <<>> THEN <<>>
    ELSE PackU32(PathOffsetOf(k, Head(pos))) \o PackU32(U32(0, 32))
            \o PackU32(U32(0, 7)) \o Records(Tail(pos), k)

CountVals == {U32(0, n) : n \in 0..MaxEntries} \cup {U32(1, 0)}

Directories ==
    {PackU32(c) \o Records(pos, Len(pos)) \o t :
        c \in CountVals,
        pos \in UNION {[1..k -> PathOffsetChoices] : k \in 0..MaxEntries},
        t \in StringTables}
    \cup {<<>>, <<1>>, <<1, 0, 0>>}

----------------------------------------------------------------------------
(* The script, lines 18-39. No statement is inside a try block: an         *)
(* exception ends the run, and err keeps its type and the statement that   *)
(* raised it.                                                              *)

NoErr == [type |-> "none", at |-> "none"]

ZeroHeader ==
    [signature |-> U32(0, 0), size |-> U32(0, 0), offset |-> U32(0, 0),
     compressed_size |-> U32(0, 0)]

\* the statement that follows statement p when p completes
Following(p) ==
    CASE p = "unmask_header" -> "unpack_header"
      [] p = "unpack_header" -> "unmask_dir"
      [] p = "unmask_dir" -> "decompress"
      [] p = "decompress" -> "read_count"
      [] p = "read_count" -> "entries"
      [] p = "entries" -> "paths"
      [] p = "paths" -> "print"
      [] p = "print" -> "done"
      [] OTHER -> p

\* an uncaught exception of type e
RaiseAndGoOn(e) ==
    /\ pc' = Following(pc)
    /\ err' = [type |-> e, at |-> pc]

Raise(e) ==
    /\ pc' = "failed"
    /\ err' = [type |-> e, at |-> pc]

\* lines 18-20: the file has been read
ScriptInit ==
    /\ pc = "unmask_header"
    /\ buf \in Archives
    /\ buf2 = <<>>
    /\ header = ZeroHeader
    /\ dcmp = <<>>
    /\ nentries = U32(0, 0)
    /\ entries = <<>>
    /\ i = 0
    /\ paths = <<>>
    /\ printed = <<>>
    /\ err = NoErr

ScriptIdle ==
    /\ pc = "done"
    /\ buf = <<>>
    /\ buf2 = <<>>
    /\ header = ZeroHeader
    /\ dcmp = <<>>
    /\ nentries = U32(0, 0)
    /\ entries = <<>>
    /\ i = 0
    /\ paths = <<>>
    /\ printed = <<>>
    /\ err = NoErr

\* line 23: buf2 = decode(buf[0:16])
UnmaskHeader ==
    /\ pc = "unmask_header"
    /\ buf2' = decode(Prefix(buf, HeaderLen), U32(0, 0))
    /\ pc' = "unpack_header"
    /\ UNCHANGED <<buf, header, dcmp, nentries, entries, i, paths, printed, err, dvars>>

\* line 25: header = Header(*struct.unpack('<IIII', buf2))
UnpackHeader ==
    /\ pc = "unpack_header"
    /\ \/ /\ Len(buf2) = HeaderLen
          /\ header' = HeaderOf(buf2)
          /\ pc' = "unmask_dir"
          /\ UNCHANGED err
       \/ /\ Len(buf2) # HeaderLen
          /\ Raise("struct.error")
          /\ UNCHANGED header
    /\ UNCHANGED <<buf, buf2, dcmp, nentries, entries, i, paths, printed, dvars>>

\* line 26: buf2 = decode(buf[(header.offset):], header.offset)
UnmaskDir ==
    /\ pc = "unmask_dir"
    /\ buf2' = decode(SliceFrom(buf, header.offset), header.offset)
    /\ pc' = "decompress"
    /\ UNCHANGED <<buf, header, dcmp, nentries, entries, i, paths, printed, err, dvars>>

\* line 27: dcmp = zlib.decompress(buf2[4:], 31). zlib is not part of this
\* program: it rejects an empty input, and on any other input it either
\* rejects it or returns some byte string.
Decompress ==
    /\ pc = "decompress"
    /\ \/ /\ Drop(buf2, 4) # <<>>
          /\ dcmp' \in Directories
          /\ pc' = "read_count"
          /\ UNCHANGED err
       \/ /\ Raise("zlib.error")
          /\ UNCHANGED dcmp
    /\ UNCHANGED <<buf, buf2, header, nentries, entries, i, paths, printed, dvars>>

\* lines 28-30: nentries, dcmp = dcmp[4:], entries = []
ReadCount ==
    /\ pc = "read_count"
    /\ \/ /\ UnpackFits(dcmp, 4, 0)
          /\ nentries' = U32At(dcmp, 0)
          /\ dcmp' = Drop(dcmp, 4)
          /\ entries' = <<>>
          /\ i' = 0
          /\ pc' = "entries"
          /\ UNCHANGED err
       \/ /\ ~UnpackFits(dcmp, 4, 0)
          /\ Raise("struct.error")
          /\ UNCHANGED <<nentries, dcmp, entries, i>>
    /\ UNCHANGED <<buf, buf2, header, paths, printed, dvars>>

\* lines 32-33: one iteration of the entry loop
ReadEntry ==
    /\ pc = "entries"
    /\ InRange(i, nentries)
    /\ \/ /\ UnpackFits(dcmp, EntrySize, i)
          /\ entries' = AppendEntry(entries, EntryAt(dcmp, i))
          /\ i' = i + EntrySize
          /\ UNCHANGED <<pc, err>>
       \/ /\ ~UnpackFits(dcmp, EntrySize, i)
          /\ Raise("struct.error")
          /\ UNCHANGED <<entries, i>>
    /\ UNCHANGED <<buf, buf2, header, dcmp, nentries, paths, printed, dvars>>

\* line 32 (range exhausted) and line 35: paths = []
EntriesDone ==
    /\ pc = "entries"
    /\ ~InRange(i, nentries)
    /\ paths' = <<>>
    /\ pc' = "paths"
    /\ UNCHANGED <<buf, buf2, header, dcmp, nentries, entries, i, printed, err, dvars>>

\* lines 36-37: one iteration of the path loop:
\* struct.unpack_from('s', dcmp, e.path_offset)[0].decode('utf-8').
\* The format 's' is one byte; a byte above 0x7F alone is not valid UTF-8.
ResolvePath ==
    /\ pc = "paths"
    /\ Len(paths) < Len(entries)
    /\ LET po == entries[Len(paths) + 1].path_offset
       IN  \/ /\ po.hi = 0
              /\ UnpackFits(dcmp, 1, po.lo)
              /\ dcmp[po.lo + 1] < 128
              /\ paths' = Append(paths, <<dcmp[po.lo + 1]>>)
              /\ UNCHANGED <<pc, err>>
           \/ /\ po.hi = 0
              /\ UnpackFits(dcmp, 1, po.lo)
              /\ dcmp[po.lo + 1] >= 128
              /\ Raise("UnicodeDecodeError")
              /\ UNCHANGED paths
           \/ /\ (po.hi > 0 \/ ~UnpackFits(dcmp, 1, po.lo))
              /\ Raise("struct.error")
              /\ UNCHANGED paths
    /\ UNCHANGED <<buf, buf2, header, dcmp, nentries, entries, i, printed, dvars>>

\* line 36 (entries exhausted)
PathsDone ==
    /\ pc = "paths"
    /\ Len(paths) = Len(entries)
    /\ pc' = "print"
    /\ UNCHANGED <<buf, buf2, header, dcmp, nentries, entries, i, paths, printed, err, dvars>>

\* lines 38-39: print(p)
PrintPath ==
    /\ pc = "print"
    /\ Len(printed) < Len(paths)
    /\ printed' = Append(printed, paths[Len(printed) + 1])
    /\ UNCHANGED <<pc, buf, buf2, header, dcmp, nentries, entries, i, paths, err, dvars>>

\* line 38 (paths exhausted): the script ends
PrintDone ==
    /\ pc = "print"
    /\ Len(printed) = Len(paths)
    /\ pc' = "done"
    /\ UNCHANGED <<buf, buf2, header, dcmp, nentries, entries, i, paths, printed, err, dvars>>

Init == ScriptInit /\ DecodeIdle

Next ==
    \/ UnmaskHeader
    \/ UnpackHeader
    \/ UnmaskDir
    \/ Decompress
    \/ ReadCount
    \/ ReadEntry
    \/ EntriesDone
    \/ ResolvePath
    \/ PathsDone
    \/ PrintPath
    \/ PrintDone

Spec == Init /\ [][Next]_vars

InitDecode == DecodeInit /\ ScriptIdle

SpecDecode == InitDecode /\ [][NextDecode]_vars

----------------------------------------------------------------------------
(* Properties of decode(), checked under SpecDecode. *)

\* C1: unmasking twice with the same offset restores the buffer: whenever a
\* call is given the result of an earlier call and the same offset, it
\* returns the earlier call's input (buffers of length 0 and 1 included).
UnmaskTwiceRestores ==
    \A m, n \in 1..Len(hist) :
        (hist[n].buf = hist[m].out /\ hist[n].offset = hist[m].offset)
            => hist[n].out = hist[m].buf

UnmaskTwiceWitness ==
    \E m, n \in 1..Len(hist) :
        /\ m < n
        /\ hist[n].buf = hist[m].out
        /\ hist[n].offset = hist[m].offset
        /\ Len(hist[m].buf) = 1
        /\ hist[m].out # hist[m].buf
        /\ hist[n].out = hist[m].buf

\* C2: decode returns a buffer of the same length whose byte k is the input
\* byte XOR the top byte of s_k (k counted from 1), s_0 being
\* (0x19000000 + base_offset) mod 2^32 and s_(k+1) = (s_k * 0x41C64E6D + 12345)
\* mod 2^32: inside the loop the generator has advanced exactly once per byte
\* written, and every mask is in 0..255.
DecodeMatchesKeystream ==
    /\ \A n \in 1..Len(hist) :
        /\ Len(hist[n].out) = Len(hist[n].buf)
        /\ hist[n].out = RefMasked(hist[n].buf, hist[n].offset)
    /\ dpc = "loop" =>
        /\ Len(out) <= Len(arg_buf)
        /\ out = RefMasked(Prefix(arg_buf, Len(out)), arg_offset)
        /\ U32(seed.hi % Half, seed.lo) = RefSeed(Len(out), arg_offset)
        /\ MaskByte(NextSeed(seed)) \in 0..255

DecodeKeystreamWitness ==
    \E n \in 1..Len(hist) :
        /\ Len(hist[n].buf) >= 2
        /\ hist[n].offset = U32(65535, 65535)
        /\ hist[n].out[1] # hist[n].buf[1]
        /\ hist[n].out[2] # hist[n].buf[2]

\* C9: two calls of decode with the same buffer and base offset return the
\* same bytes, whatever calls were made before or between them.
SameArgumentsSameOutput ==
    \A m, n \in 1..Len(hist) :
        (hist[m].buf = hist[n].buf /\ hist[m].offset = hist[n].offset)
            => hist[m].out = hist[n].out

SameArgumentsWitness ==
    \E m, n \in 1..Len(hist) :
        /\ m + 1 < n
        /\ hist[m].buf = hist[n].buf
        /\ hist[m].offset = hist[n].offset
        /\ hist[m + 1].offset # hist[m].offset
        /\ Len(hist[m].buf) >= 2
        /\ hist[m].out = hist[n].out

----------------------------------------------------------------------------
(* Properties of the script, checked under Spec. *)

HeaderStages == {"unmask_header", "unpack_header"}

ParseStages == {"read_count", "entries", "paths"}

\* the directory parse has begun (or ended)
ParseStarted ==
    \/ pc \in ParseStages \cup {"print", "done"}
    \/ pc = "failed" /\ err.at \in ParseStages

\* the decompressed directory as zlib returned it, count included
RawDirectory ==
    IF pc = "read_count" \/ err.at = "read_count" THEN dcmp
    ELSE PackU32(nentries) \o dcmp

\* the defects of a directory buffer: no room for the count, an entry table
\* longer than what follows the count, a path offset outside what follows it
Malformed(raw) ==
    \/ Len(raw) < 4
    \/ LET n == U32At(raw, 0)
           body == Drop(raw, 4)
       IN  \/ n.hi > 0
           \/ n.lo * 12 > Len(body)
           \/ \E k \in 0..(n.lo - 1) :
                LET po == U32At(body, 12 * k)
                IN  po.hi > 0 \/ po.lo >= Len(body)

\* body[off] up to, and without, the first zero byte
RECURSIVE CStringAt(_, _)
CStringAt(b, off) ==
    IF off >= Len(b) \/ b[off + 1] = 0 THEN <<>>
    ELSE <<b[off + 1]>> \o CStringAt(b, off + 1)

\* C3: a 16-byte header of four little-endian fields, masked with the
\* documented keystream at base offset 0, is decoded without error into
\* exactly those four fields, in order.
HeaderRoundTrip ==
    \A e \in EncodedHeaders :
        (/\ pc \notin HeaderStages
         /\ Len(buf) >= 16
         /\ Prefix(buf, 16) = e.bytes)
            => (err.at # "unpack_header" /\ header = e.fields)

HeaderRoundTripWitness ==
    /\ pc = "unmask_dir"
    /\ header.signature = U32(65279, 32769)
    /\ header.size = U32(32768, 0)
    /\ header.offset = U32(1, 0)
    /\ header.compressed_size = U32(0, 5)

\* C4: after a successful run, every resolved path is the whole
\* null-terminated string that starts at its entry's path_offset.
PathsAreNullTerminatedStrings ==
    pc = "done" =>
        \A k \in 1..Len(paths) :
            paths[k] = CStringAt(dcmp, U32At(dcmp, 12 * (k - 1)).lo)

\* C5: when header.offset is at or past the end of the archive, the run
\* fails at the directory step with a bounds error, not a decompression error.
OffsetPastEndIsBoundsError ==
    (/\ pc \notin HeaderStages \cup {"unmask_dir", "decompress"}
     /\ err.at # "unpack_header"
     /\ (header.offset.hi > 0 \/ header.offset.lo >= Len(buf)))
        => (pc = "failed" /\ err.at = "decompress" /\ err.type = "BoundsError")

\* C6: a decompressed directory that is shorter than 4 bytes, or whose entry
\* table is longer than what follows the count, or that has a path offset
\* outside what follows the count, is never parsed to the end: nothing is
\* printed, the path loop never completes, and a run that has ended has
\* ended with a format error (struct.error or UnicodeDecodeError).
MalformedDirectoryRejected ==
    (ParseStarted /\ Malformed(RawDirectory)) =>
        /\ printed = <<>>
        /\ pc \notin {"print", "done"}
        /\ ~(pc = "paths" /\ Len(paths) = Len(entries))
        /\ pc = "failed" => err.type \in {"struct.error", "UnicodeDecodeError"}

MalformedDirectoryWitness ==
    /\ pc = "failed"
    /\ err = [type |-> "struct.error", at |-> "entries"]
    /\ nentries = U32(0, 2)
    /\ Len(entries) = 1
    /\ Len(dcmp) >= 12

\* C7: a decompressed directory that is just the count 0 is parsed without
\* error into no entries and no paths, and nothing is printed.
ZeroEntryDirectory ==
    (ParseStarted /\ RawDirectory = <<0, 0, 0, 0>>) =>
        /\ pc # "failed"
        /\ err = NoErr
        /\ entries = <<>>
        /\ paths = <<>>
        /\ printed = <<>>

ZeroEntryWitness ==
    /\ pc = "done"
    /\ nentries = U32(0, 0)
    /\ dcmp = <<>>
    /\ printed = <<>>
    /\ err = NoErr

\* C8: the statements run in source order; a statement either hands over to
\* the next one or raises, and once an exception is raised nothing changes
\* any more; each result is written only by its own stage, and a path is
\* printed only when every entry has been read and every path resolved.
PipelineFailsFast ==
    [][/\ (pc = "failed" \/ pc = "done" \/ err # NoErr) => UNCHANGED vars
       /\ pc' # pc =>
            \/ pc' = Following(pc) /\ err' = NoErr
            \/ /\ pc' = "failed"
               /\ err'.at = pc
               /\ err'.type # "none"
               /\ UNCHANGED <<buf2, header, dcmp, nentries, entries, paths, printed>>
       /\ header' # header => pc = "unpack_header"
       /\ dcmp' # dcmp => pc \in {"decompress", "read_count"}
       /\ entries' # entries => pc = "entries"
       /\ paths' # paths => pc = "paths"
       /\ printed' # printed =>
            /\ pc = "print"
            /\ ~InRange(i, nentries)
            /\ Len(paths) = Len(entries)]_vars

PipelineFailsFastWitness ==
    /\ pc = "failed"
    /\ err = [type |-> "struct.error", at |-> "paths"]
    /\ Len(entries) = 2
    /\ Len(paths) = 1
    /\ printed = <<>>

\* C10: after a successful run there are exactly entry_count printed paths,
\* and the k-th is the one resolved from the path_offset of the 12-byte
\* record at offset 12 * (k - 1) after the count: stored order, repeats kept.
PathsInEntryOrder ==
    pc = "done" =>
        /\ nentries.hi = 0
        /\ Len(printed) = nentries.lo
        /\ \A k \in 1..Len(printed) :
            printed[k] = <<dcmp[U32At(dcmp, 12 * (k - 1)).lo + 1]>>

PathsInEntryOrderWitness ==
    /\ pc = "done"
    /\ nentries = U32(0, 2)
    /\ printed = << <<99>>, <<97>> >>

====
